---- MODULE Spec2Model ----
(***************************************************************************)
(* Model of the direct-mode NDArrayView operator layer of                  *)
(* bindings/python/cntk/tensor.py (class NDArrayViewOpsMixin): indexing,   *)
(* indexed assignment, splice, the in-place operators and the matrix       *)
(* product.  Python tuples and lists are sequences; a Python index i is    *)
(* the sequence index i + 1.  The primitives of the native runtime         *)
(* (slice_view, as_shape, numeric_operation_in_place, matrix_product) are  *)
(* not part of the Python sources and are modelled from the specification. *)
(***************************************************************************)
EXTENDS Integers, Sequences, FiniteSets, TLC

VARIABLES shape, read_only, klass, mem, env, op, calls, res

vars == <<shape, read_only, klass, mem, env, op, calls, res>>

(***************************************************************************)
(* Bounds of the model.                                                    *)
(***************************************************************************)
MaxDim == 3
MaxRank == 3
MaxKeyLen == 3

(***************************************************************************)
(* Python values.                                                          *)
(***************************************************************************)
None == <<>>
Some(v) == <<v>>

Ell == [k |-> "ellipsis", v |-> 0, start |-> None, stop |-> None, step |-> None]
Idx(n) == [k |-> "int", v |-> n, start |-> None, stop |-> None, step |-> None]
Slc(a, b, c) == [k |-> "slice", v |-> 0, start |-> a, stop |-> b, step |-> c]

RECURSIVE Prod(_)
Prod(s) == IF s = <<>> THEN 1 ELSE Head(s) * Prod(Tail(s))

RECURSIVE Repeat(_, _)
Repeat(x, n) == IF n <= 0 THEN <<>> ELSE <<x>> \o Repeat(x, n - 1)

\* the index tuples of an array of shape s (0-based per axis)
RECURSIVE Coords(_)
Coords(s) == IF s = <<>> THEN {<<>>}
             ELSE {<<x>> \o c : x \in 0..(Head(s) - 1), c \in Coords(Tail(s))}

\* position of index tuple c in the row-major enumeration of shape s
RECURSIVE Flat(_, _)
Flat(s, c) == IF s = <<>> THEN 0
              ELSE Flat(SubSeq(s, 1, Len(s) - 1), SubSeq(c, 1, Len(c) - 1)) * s[Len(s)]
                   + c[Len(c)]

(***************************************************************************)
(* Primitives of the native runtime, as the specification states them.     *)
(***************************************************************************)
\* slice_view(start_offsets, extents, read_only): legal when the View
\* invariant holds on every axis and every extent is a size.
slice_view_ok(parent, start_offsets, extents) ==
    /\ Len(start_offsets) = Len(parent)
    /\ Len(extents) = Len(parent)
    /\ \A a \in 1..Len(parent) :
          /\ 0 <= start_offsets[a]
          /\ 0 <= extents[a]
          /\ start_offsets[a] + extents[a] <= parent[a]

\* as_shape(new_shape): legal when the element counts agree.
as_shape_ok(old_shape, new_shape) == Prod(old_shape) = Prod(new_shape)

(***************************************************************************)
(* NDArrayViewOpsMixin.__getitem__(self, key, keep_singles)                *)
(***************************************************************************)
\* the step test of a slice selector: `s.step is not None and i[2] != 1`
\* subscripts the loop counter i, an int, whenever a step is given.
StepCheck(step) == IF step = None THEN "none" ELSE "TypeError"

\* SliceSelectorAsGiven is the slice branch without `begin += shape[i]` and
\* `end += shape[i]`; SliceSelector is
\* one slice selector s at key position i
SliceSelectorAsGiven(shp, s, i, st) ==
    IF s.stop = None /\ i >= Len(shp) THEN [st EXCEPT !.err = "IndexError"]
    ELSE IF StepCheck(s.step) # "none" THEN [st EXCEPT !.err = StepCheck(s.step)]
    ELSE IF i >= Len(shp) THEN [st EXCEPT !.err = "IndexError"]
    ELSE [st EXCEPT !.start_offsets[i + 1] = IF s.start = None THEN 0 ELSE s.start[1],
                    !.extents[i + 1] = (IF s.stop = None THEN shp[i + 1] ELSE s.stop[1])
                                       - (IF s.start = None THEN 0 ELSE s.start[1]),
                    !.dims_to_keep[i + 1] = (s.stop # None)]
SliceSelector(shp, s, i, st) ==
    LET n == Len(shp)
        begin0 == IF s.start = None THEN 0 ELSE s.start[1]
    IN  IF s.stop = None /\ i >= n THEN [st EXCEPT !.err = "IndexError"]
        ELSE IF StepCheck(s.step) # "none"
             THEN [st EXCEPT !.err = StepCheck(s.step)]
        ELSE IF i >= n THEN [st EXCEPT !.err = "IndexError"]
        ELSE LET end0  == IF s.stop = None THEN shp[i + 1] ELSE s.stop[1]
                 begin == IF begin0 < 0 THEN begin0 + shp[i + 1] ELSE begin0
                 end   == IF end0 < 0 THEN end0 + shp[i + 1] ELSE end0
             IN  [st EXCEPT !.start_offsets[i + 1] = begin,
                            !.extents[i + 1] = end - begin,
                            !.dims_to_keep[i + 1] = (s.stop # None)]

\* any other selector s at key position i is taken as a single index
SingleIndex(shp, s, i, st) ==
    IF i >= Len(shp) THEN [st EXCEPT !.err = "IndexError"]
    ELSE [st EXCEPT !.start_offsets[i + 1] = s.v,
                    !.extents[i + 1] = 1,
                    !.dims_to_keep[i + 1] = FALSE]

\* the body of `for i, s in enumerate(key)`
Selector(shp, s, i, st) ==
    IF s.k = "ellipsis" THEN [st EXCEPT !.i_off = 0 - Len(shp)]
    ELSE IF s.k = "slice" THEN SliceSelector(shp, s, i, st)
    ELSE SingleIndex(shp, s, i, st)

RECURSIVE KeyLoop(_, _, _, _)
KeyLoop(shp, key, i, st) ==
    IF i >= Len(key) \/ st.err # "none" THEN st
    ELSE KeyLoop(shp, key, i + 1, Selector(shp, key[i + 1], i, st))

KeyLoopInit(shp) ==
    [err |-> "none",
     start_offsets |-> [a \in 1..Len(shp) |-> 0],
     extents |-> shp,
     dims_to_keep |-> [a \in 1..Len(shp) |-> TRUE],
     i_off |-> 0]

\* shape = sum(((dim,) * dims_to_keep[i] for i, dim in enumerate(shape)), ())
RECURSIVE KeptDims(_, _)
KeptDims(shp, keep) ==
    IF shp = <<>> THEN <<>>
    ELSE (IF Head(keep) THEN <<Head(shp)>> ELSE <<>>) \o KeptDims(Tail(shp), Tail(keep))

\* NDArrayViewOpsMixin.reshape: the as_shape call and its outcome
Reshape(old_shape, new_shape) ==
    [err   |-> IF as_shape_ok(old_shape, new_shape) THEN "none" ELSE "ShapeMismatch",
     shape |-> new_shape,
     calls |-> <<[fn |-> "as_shape", from |-> old_shape, to |-> new_shape]>>]

\* the slice_view call with the offsets and extents the loop left in st
SliceViewCall(ro, st) ==
    [fn |-> "slice_view", start_offsets |-> st.start_offsets,
     extents |-> st.extents, read_only |-> ro]

\* the view after `if not keep_singles and not all(dims_to_keep)`: rs is
\* the reshape that drops the axes not kept
DropSingles(v, rs) ==
    [v EXCEPT !.err = rs.err,
              !.shape = IF rs.err = "none" THEN rs.shape ELSE <<>>,
              !.calls = v.calls \o rs.calls]

\* __getitem__ after its loop has left st
GetItemView(shp, ro, keep_singles, st) ==
    IF st.err # "none"
    THEN [err |-> st.err, shape |-> <<>>, start_offsets |-> st.start_offsets,
          extents |-> st.extents, calls |-> <<>>]
    ELSE IF ~slice_view_ok(shp, st.start_offsets, st.extents)
    THEN [err |-> "InvalidArgument", shape |-> <<>>,
          start_offsets |-> st.start_offsets, extents |-> st.extents,
          calls |-> <<SliceViewCall(ro, st)>>]
    ELSE IF keep_singles \/ \A a \in 1..Len(shp) : st.dims_to_keep[a]
    THEN [err |-> "none", shape |-> st.extents,
          start_offsets |-> st.start_offsets, extents |-> st.extents,
          calls |-> <<SliceViewCall(ro, st)>>]
    ELSE DropSingles([err |-> "none", shape |-> st.extents,
                      start_offsets |-> st.start_offsets, extents |-> st.extents,
                      calls |-> <<SliceViewCall(ro, st)>>],
                     Reshape(st.extents, KeptDims(st.extents, st.dims_to_keep)))

\* the whole of __getitem__: the outcome, the view and the runtime calls issued
GetItem(shp, ro, key, keep_singles) ==
    GetItemView(shp, ro, keep_singles, KeyLoop(shp, key, 0, KeyLoopInit(shp)))

(***************************************************************************)
(* numeric_operation_in_place(beta, [value], alpha, opCopy, opSum) on a    *)
(* target region of the receiver's storage:  out = beta*out + alpha*value. *)
(***************************************************************************)
\* value broadcasts onto the target: trailing axes agree or are 1
BroadcastOk(vshape, tshape) ==
    /\ Len(vshape) <= Len(tshape)
    /\ \A a \in 1..Len(vshape) :
          LET t == tshape[Len(tshape) - Len(vshape) + a]
          IN  vshape[a] = t \/ vshape[a] = 1

\* the element of value that lands on index tuple c of the target
BroadcastRead(value, tshape, c) ==
    LET d == Len(tshape) - Len(value.shape)
    IN  value.data[[a \in 1..Len(value.shape) |->
                       IF value.shape[a] = 1 THEN 0 ELSE c[d + a]]]

\* contents of storage m (of shape shp) after the in-place operation on the
\* region start_offsets/extents; fill stands for what lands in the region
\* when the runtime accepts operands that do not broadcast
InPlace(m, shp, start_offsets, extents, beta, value, alpha, fill) ==
    [c \in Coords(shp) |->
        IF \A a \in 1..Len(shp) :
              start_offsets[a] <= c[a] /\ c[a] < start_offsets[a] + extents[a]
        THEN LET rel == [a \in 1..Len(shp) |-> c[a] - start_offsets[a]]
             IN  IF BroadcastOk(value.shape, extents)
                 THEN beta * m[c] + alpha * BroadcastRead(value, extents, rel)
                 ELSE fill
        ELSE m[c]]

\* an operand handle of shape s holding distinct negative elements
Operand(s) == [shape |-> s, data |-> [c \in Coords(s) |-> 0 - (Flat(s, c) + 1)]]

\* contents of a handle of shape s before any operation: distinct positives
Iota(s) == [c \in Coords(s) |-> Flat(s, c) + 1]

(***************************************************************************)
(* Inputs.                                                                 *)
(***************************************************************************)
\* shapes of rank up to MaxRank whose axes are unit or of size MaxDim
Shapes == UNION {[1..r -> {1, MaxDim}] : r \in 0..MaxRank}

\* Ellipsis, 0, 1, -1, ':', 0:2, -2:-1, 0:2:1, 0:2:2
Selectors ==
    {Ell, Idx(0), Idx(1), Idx(0 - 1),
     Slc(None, None, None), Slc(Some(0), Some(2), None),
     Slc(Some(0 - 2), Some(0 - 1), None),
     Slc(Some(0), Some(2), Some(1)), Slc(Some(0), Some(2), Some(2))}

Keys == UNION {[1..n -> Selectors] : n \in 0..MaxKeyLen}

NoOp == [name |-> "none"]
NoRes == [err |-> "none"]

(***************************************************************************)
(* State: the receiver handle (shape, read_only, klass its class, and mem, *)
(* the contents of its storage), the names bound to handles (env), the     *)
(* operation applied (op), the runtime calls that operation issued (calls) *)
(* and its outcome (res).  The receiver is handle Self; a and b are two    *)
(* names for it (b = a).                                                   *)
(***************************************************************************)
Self == "self"
Fresh == "new"
Other == "other"

Bindings == [a |-> Self, b |-> Self]

Init ==
    /\ shape \in Shapes
    /\ read_only \in BOOLEAN
    /\ klass = "NDArrayView"
    /\ env = Bindings
    /\ mem = Iota(shape)
    /\ op = NoOp
    /\ calls = <<>>
    /\ res = NoRes

\* r = self[key] and r = self.__getitem__(key, keep_singles=True)
GetItemDone(key, keep_singles, g) ==
    /\ op' = [name |-> "getitem", key |-> key, keep_singles |-> keep_singles]
    /\ calls' = g.calls
    /\ res' = [err |-> g.err, shape |-> g.shape, class |-> klass]

GetItemCall ==
    /\ op = NoOp
    /\ \E key \in Keys, keep_singles \in BOOLEAN :
         GetItemDone(key, keep_singles, GetItem(shape, read_only, key, keep_singles))
    /\ UNCHANGED <<shape, read_only, klass, mem, env>>

\* the shapes of value tried for a view of extents ext
ValueShapes(ext) == {ext, <<>>, <<2>>}

\* the scale __setitem__ gives the old contents of the view: overwrite
SetItemBeta == 0

\* __setitem__ asks __getitem__ for the view with keep_singles=True;
\* SetItemKeepSinglesDefault is the call that leaves the default in place
SetItemKeepSinglesDefault == FALSE
SetItemKeepSingles == TRUE

\* slice.numeric_operation_in_place(0.0, [value], 1.0, 2, 24) on the view g
SetItemCopy(shp, m, g, value, accept, fill) ==
    IF g.err # "none" THEN [err |-> g.err, calls |-> g.calls, mem |-> m]
    ELSE LET w == [fn |-> "numeric_operation_in_place",
                   start_offsets |-> g.start_offsets, extents |-> g.extents,
                   beta |-> SetItemBeta, value |-> value.shape, alpha |-> 1]
         IN  IF g.calls[1].read_only
             THEN [err |-> "ReadOnly", calls |-> g.calls \o <<w>>, mem |-> m]
             ELSE IF ~BroadcastOk(value.shape, g.shape) /\ ~accept
             THEN [err |-> "ShapeMismatch", calls |-> g.calls \o <<w>>, mem |-> m]
             ELSE [err |-> "none", calls |-> g.calls \o <<w>>,
                   mem |-> InPlace(m, shp, g.start_offsets, g.extents, SetItemBeta,
                                   value, 1, fill)]

\* self[key] = value
SetItem(shp, ro, m, key, value, accept, fill) ==
    SetItemCopy(shp, m, GetItem(shp, ro, key, SetItemKeepSingles), value, accept, fill)

\* the values tried for key: of the view's shape, a scalar and a pair
SetItemValues(g) ==
    IF g.err = "none" THEN {Operand(vs) : vs \in ValueShapes(g.shape)}
    ELSE {Operand(<<>>)}

\* whether the runtime takes operands that do not broadcast is its choice
RuntimeChoice(g, value) ==
    IF g.err = "none" /\ ~BroadcastOk(value.shape, g.shape) THEN BOOLEAN ELSE {FALSE}

SetItemDone(key, value, s) ==
    /\ op' = [name |-> "setitem", key |-> key, value |-> value]
    /\ calls' = s.calls
    /\ res' = [err |-> s.err,
               shape |-> IF s.calls = <<>> THEN <<>> ELSE s.calls[1].extents]
    /\ mem' = s.mem

SetItemCall ==
    /\ op = NoOp
    /\ \E key \in Keys :
         \E value \in SetItemValues(GetItem(shape, read_only, key, SetItemKeepSingles)) :
           \E accept \in RuntimeChoice(GetItem(shape, read_only, key, SetItemKeepSingles),
                                       value) :
             SetItemDone(key, value,
                         SetItem(shape, read_only, mem, key, value, accept, 0))
    /\ UNCHANGED <<shape, read_only, klass, env>>

Next == GetItemCall \/ SetItemCall

Spec == Init /\ [][Next]_vars

(***************************************************************************)
(* NDArrayViewOpsMixin.splice(args, axis).  args is the sequence of the    *)
(* input shapes; the result buffer res is a fresh writable handle, and mem *)
(* counts how often each of its elements has been written.                 *)
(***************************************************************************)
MaxItems == 2
MaxSpliceRank == 2

\* out_shape = shape[0:axis] + (shape[axis] * num_items,) + shape[axis+1:]
SpliceOutShapeAdd(shp, axis, num_items) ==
    [a \in 1..Len(shp) |-> IF a = axis + 1 THEN shp[a] + num_items ELSE shp[a]]
SpliceOutShape(shp, axis, num_items) ==
    [a \in 1..Len(shp) |-> IF a = axis + 1 THEN shp[a] * num_items ELSE shp[a]]

\* key = (slice(0,None),) * axis + (i,)
SpliceKey(axis, i) == Repeat(Slc(Some(0), None, None), axis) \o <<Idx(i)>>

\* one iteration, res[key] = args[i].reshape(shape): rs is the reshape and
\* s the assignment
SpliceItem(st, rs, s) ==
    IF rs.err # "none"
    THEN [st EXCEPT !.err = rs.err, !.calls = st.calls \o rs.calls]
    ELSE [err |-> s.err, calls |-> st.calls \o rs.calls \o s.calls, mem |-> s.mem]

\* the iterations i, i+1, ... of `for i in range(num_items)`
RECURSIVE SpliceLoop(_, _, _, _, _, _, _)
SpliceLoop(args, shp, axis, out_shape, i, accept, st) ==
    IF i >= Len(args) \/ st.err # "none" THEN st
    ELSE SpliceLoop(args, shp, axis, out_shape, i + 1, accept,
             SpliceItem(st, Reshape(args[i + 1], shp),
                        SetItem(out_shape, FALSE, st.mem, SpliceKey(axis, i),
                                [shape |-> shp, data |-> [c \in Coords(shp) |-> 1]],
                                accept, 1)))

\* splice from the allocation of the output on
SpliceInto(args, shp, axis, out_shape, accept) ==
    SpliceLoop(args, shp, axis, out_shape, 0, accept,
               [err |-> "none",
                calls |-> <<[fn |-> "NDArrayView", shape |-> out_shape]>>,
                mem |-> [c \in Coords(out_shape) |-> 0]])

\* splice once shape and axis are settled (a negative axis prepends axes)
SpliceAlong(args, shp, axis, accept) ==
    IF axis >= Len(shp)
    THEN [err |-> "IndexError", shape |-> <<>>, calls |-> <<>>,
          mem |-> [c \in Coords(<<>>) |-> 0]]
    ELSE [shape |-> SpliceOutShape(shp, axis, Len(args))]
         @@ SpliceInto(args, shp, axis, SpliceOutShape(shp, axis, Len(args)), accept)

Splice(args, axis, accept) ==
    IF Len(args) = 0
    THEN [err |-> "IndexError", shape |-> <<>>, calls |-> <<>>,
          mem |-> [c \in Coords(<<>>) |-> 0]]
    ELSE IF axis < 0
    THEN SpliceAlong(args, Repeat(1, 0 - axis) \o args[1], 0, accept)
    ELSE SpliceAlong(args, args[1], axis, accept)

\* a write whose value does not broadcast onto its view is left to the runtime
SpliceMismatch(args, axis0) ==
    /\ Len(args) > 0
    /\ axis0 >= 0
    /\ axis0 < Len(args[1])
    /\ args[1][axis0 + 1] # 1

InitSplice ==
    /\ shape = <<>>
    /\ read_only = FALSE
    /\ klass = "NDArrayView"
    /\ env = Bindings
    /\ mem = [c \in Coords(<<>>) |-> 0]
    /\ op = NoOp
    /\ calls = <<>>
    /\ res = NoRes

\* up to MaxItems inputs of rank up to MaxSpliceRank, of any mix of shapes
SpliceShapes == {s \in Shapes : Len(s) <= MaxSpliceRank}
SpliceArgs == UNION {[1..n -> SpliceShapes] : n \in 0..MaxItems}

\* r = NDArrayViewOpsMixin.splice(args, axis)
SpliceDone(args, axis, s) ==
    /\ op' = [name |-> "splice", args |-> args, axis |-> axis]
    /\ calls' = s.calls
    /\ res' = [err |-> s.err, shape |-> IF s.err = "none" THEN s.shape ELSE <<>>]
    /\ shape' = s.shape
    /\ mem' = s.mem

SpliceCall ==
    /\ op = NoOp
    /\ \E args \in SpliceArgs, axis \in (0 - 2)..MaxSpliceRank :
         \E accept \in (IF SpliceMismatch(args, axis) THEN BOOLEAN ELSE {FALSE}) :
           SpliceDone(args, axis, Splice(args, axis, accept))
    /\ UNCHANGED <<read_only, klass, env>>

NextSplice == SpliceCall

SpliceSpec == InitSplice /\ [][NextSplice]_vars

(***************************************************************************)
(* The in-place operators and the matrix product.                          *)
(***************************************************************************)
\* self.numeric_operation_in_place(1.0, [other], alpha, 2, 24) over the
\* whole of self
Accumulate(shp, ro, m, other, alpha, accept) ==
    LET zero == [a \in 1..Len(shp) |-> 0]
        w == [fn |-> "numeric_operation_in_place", start_offsets |-> zero,
              extents |-> shp, beta |-> 1, value |-> other.shape, alpha |-> alpha]
    IN  IF ro THEN [err |-> "ReadOnly", calls |-> <<w>>, mem |-> m]
        ELSE IF ~BroadcastOk(other.shape, shp) /\ ~accept
        THEN [err |-> "ShapeMismatch", calls |-> <<w>>, mem |-> m]
        ELSE [err |-> "none", calls |-> <<w>>,
              mem |-> InPlace(m, shp, zero, shp, 1, other, alpha, 0)]

\* what __iadd__ and __isub__ return: self.  InPlaceReturnNew is the
\* variant that hands back a newly made handle
InPlaceReturnNew(self, new) == new
InPlaceReturn(self, new) == self

\* a += other
IAdd(shp, ro, m, other, accept) ==
    [ret |-> InPlaceReturn(Self, Fresh)] @@ Accumulate(shp, ro, m, other, 1, accept)

\* a -= other: an in-place add-to with alpha = -1
ISub(shp, ro, m, other, accept) ==
    [ret |-> InPlaceReturn(Self, Fresh)] @@ Accumulate(shp, ro, m, other, 0 - 1, accept)

\* the operands tried: of the receiver's shape, a scalar and a pair
Operands(shp) == {Operand(s) : s \in {shp, <<>>, <<2>>}}

\* the statement a += other / a -= other rebinds a to what the method returns
InPlaceDone(name, other, r) ==
    /\ op' = [name |-> name, other |-> other]
    /\ calls' = r.calls
    /\ res' = [err |-> r.err, ret |-> r.ret]
    /\ mem' = r.mem
    /\ env' = IF r.err = "none" THEN [env EXCEPT !.a = r.ret] ELSE env

IAddCall ==
    /\ op = NoOp
    /\ \E other \in Operands(shape) :
         \E accept \in (IF BroadcastOk(other.shape, shape) THEN {FALSE} ELSE BOOLEAN) :
           InPlaceDone("iadd", other, IAdd(shape, read_only, mem, other, accept))
    /\ UNCHANGED <<shape, read_only, klass>>

ISubCall ==
    /\ op = NoOp
    /\ \E other \in Operands(shape) :
         \E accept \in (IF BroadcastOk(other.shape, shape) THEN {FALSE} ELSE BOOLEAN) :
           InPlaceDone("isub", other, ISub(shape, read_only, mem, other, accept))
    /\ UNCHANGED <<shape, read_only, klass>>

\* the two matrix operands of the matrix_product call, in call order;
\* MatMulOperandsUnswapped keeps the order of a.dot(b)
MatMulOperandsUnswapped(self, other) == <<self, other>>
MatMulOperands(self, other) == <<other, self>>

\* _mat_prod(False, other, False, self, False, 1.0, 1): the arguments of
\* matrix_product by position, and the class given to the result
MatProd(self, other, other_class, accept) ==
    [err   |-> IF accept THEN "none" ELSE "ShapeMismatch",
     calls |-> <<[fn |-> "matrix_product", arg1 |-> FALSE,
                  arg2 |-> MatMulOperands(self, other)[1], arg3 |-> FALSE,
                  arg4 |-> MatMulOperands(self, other)[2], arg5 |-> FALSE,
                  arg6 |-> 1, arg7 |-> 1]>>,
     class |-> other_class]

\* the scalar receiver's stand-in self1 and the broadcast copy into it
ScalarStandIn(other) ==
    <<[fn |-> "NDArrayView", shape |-> <<other.shape[1]>>],
      [fn |-> "numeric_operation_in_place", start_offsets |-> <<0>>,
       extents |-> <<other.shape[1]>>, beta |-> 0, value |-> <<>>, alpha |-> 1]>>

PrependCalls(cs, r) == [r EXCEPT !.calls = cs \o r.calls]

\* a @ other, a.dot(other)
MatMul(shp, other, accept) ==
    IF Len(shp) = 0
    THEN IF Len(other.shape) = 0
         THEN [err |-> "IndexError", calls |-> <<>>, class |-> other.class]
         ELSE PrependCalls(ScalarStandIn(other),
                           MatProd(Fresh, Other, other.class, accept))
    ELSE MatProd(Self, Other, other.class, accept)

Classes == {"NDArrayView", "Variable"}

InitAlg ==
    /\ shape \in Shapes
    /\ read_only \in BOOLEAN
    /\ klass \in Classes
    /\ env = Bindings
    /\ mem = Iota(shape)
    /\ op = NoOp
    /\ calls = <<>>
    /\ res = NoRes

MatMulDone(other, r) ==
    /\ op' = [name |-> "matmul", other |-> other]
    /\ calls' = r.calls
    /\ res' = [err |-> r.err, ret |-> Fresh, class |-> r.class]

\* r = a @ other; whether the runtime takes the two shapes is its choice
MatMulCall ==
    /\ op = NoOp
    /\ \E s \in Shapes, c \in Classes, accept \in BOOLEAN :
         MatMulDone([shape |-> s, class |-> c],
                    MatMul(shape, [shape |-> s, class |-> c], accept))
    /\ UNCHANGED <<shape, read_only, klass, mem, env>>

(***************************************************************************)
(* matrix_product(transC, A, transA, B, transB, alpha, outputRank) of the  *)
(* runtime on two matrices: the flag that follows an operand transposes    *)
(* that operand.  Operands are records [shape, data].                      *)
(***************************************************************************)
MatShape(x, t) == IF t THEN <<x.shape[2], x.shape[1]>> ELSE x.shape

MatAt(x, t, i, j) == IF t THEN x.data[<<j, i>>] ELSE x.data[<<i, j>>]

RECURSIVE DotSum(_, _, _, _, _, _, _)
DotSum(A, transA, B, transB, i, j, k) ==
    IF k = 0 THEN 0
    ELSE MatAt(A, transA, i, k - 1) * MatAt(B, transB, k - 1, j)
         + DotSum(A, transA, B, transB, i, j, k - 1)

\* the two operands are matrices whose inner sizes agree
Conformable(A, transA, B, transB) ==
    /\ Len(A.shape) = 2
    /\ Len(B.shape) = 2
    /\ MatShape(A, transA)[2] = MatShape(B, transB)[1]

NoValue == [shape |-> <<>>, data |-> <<>>]

matrix_product(A, transA, B, transB) ==
    IF Conformable(A, transA, B, transB)
    THEN [shape |-> <<MatShape(A, transA)[1], MatShape(B, transB)[2]>>,
          data  |-> [c \in Coords(<<MatShape(A, transA)[1], MatShape(B, transB)[2]>>) |->
                        DotSum(A, transA, B, transB, c[1], c[2],
                               MatShape(A, transA)[2])]]
    ELSE NoValue

\* b.transpose() of a matrix b
Transpose(x) ==
    [shape |-> <<x.shape[2], x.shape[1]>>,
     data  |-> [c \in Coords(<<x.shape[2], x.shape[1]>>) |-> x.data[<<c[2], c[1]>>]]]

\* what a.dot(b) holds when the runtime carries the product out
DotValue(self, other) ==
    matrix_product(MatMulOperands(self, other)[1], FALSE,
                   MatMulOperands(self, other)[2], FALSE)

\* the transpose flags dot_transpose passes after `other` and after `self`;
\* DotTransposeFlagsOnSelf sets the flag after self instead
DotTransposeFlagsOnSelf == <<FALSE, TRUE>>
DotTransposeFlags == <<TRUE, FALSE>>

\* a.dot_transpose(other): _mat_prod(False, other, True, self, False, 1.0, 1)
DotTranspose(self, other, other_class, accept) ==
    [err   |-> IF accept THEN "none" ELSE "ShapeMismatch",
     calls |-> <<[fn |-> "matrix_product", arg1 |-> FALSE,
                  arg2 |-> MatMulOperands(self, other)[1],
                  arg3 |-> DotTransposeFlags[1],
                  arg4 |-> MatMulOperands(self, other)[2],
                  arg5 |-> DotTransposeFlags[2],
                  arg6 |-> 1, arg7 |-> 1]>>,
     class |-> other_class]

DotTransposeValue(self, other) ==
    matrix_product(MatMulOperands(self, other)[1], DotTransposeFlags[1],
                   MatMulOperands(self, other)[2], DotTransposeFlags[2])

\* the receiver as an operand of the product
Receiver == [shape |-> shape, data |-> mem]

\* the second operands tried: handles of either class with distinct elements
MatOperands == {[class |-> c] @@ Operand(s) : s \in Shapes, c \in Classes}

DotTransposeDone(other, r, value) ==
    /\ op' = [name |-> "dot_transpose", other |-> other]
    /\ calls' = r.calls
    /\ res' = [err |-> r.err, ret |-> Fresh, class |-> r.class,
               value |-> IF r.err = "none" THEN value ELSE NoValue]

\* r = a.dot_transpose(other)
DotTransposeCall ==
    /\ op = NoOp
    /\ \E other \in MatOperands, accept \in BOOLEAN :
         DotTransposeDone(other, DotTranspose(Self, Other, other.class, accept),
                          DotTransposeValue(Receiver, other))
    /\ UNCHANGED <<shape, read_only, klass, mem, env>>

\* the element-wise operator each method passes to numeric_operation
OpCode(name) ==
    CASE name \in {"add", "radd"} -> 24
      [] name = "sub" -> 25
      [] name \in {"mul", "rmul"} -> 26
      [] name = "sigmoid" -> 8
      [] name = "tanh" -> 9
      [] name = "relu" -> 14

BinaryOps == {"add", "sub", "mul", "radd", "rmul"}
UnaryOps == {"sigmoid", "tanh", "relu"}

\* _num_op(operands, 1.0, opcode): numeric_operation, then the result is
\* given the class of the first operand in the list
NumOp(operands, opcode, accept) ==
    [err   |-> IF accept THEN "none" ELSE "ShapeMismatch",
     calls |-> <<[fn |-> "numeric_operation",
                  operands |-> [i \in 1..Len(operands) |-> operands[i].name],
                  alpha |-> 1, opcode |-> opcode]>>,
     class |-> operands[1].class]

\* self + other, self - other, self * other, other + self, other * self:
\* each passes [self, other]; the unary ones pass [self]
Method(name, self, other, accept) ==
    IF name \in BinaryOps THEN NumOp(<<self, other>>, OpCode(name), accept)
    ELSE NumOp(<<self>>, OpCode(name), accept)

\* r = self + other, ..., r = self.relu(); the other operand is of a handle
\* class or no tensor at all
NumOpCall ==
    /\ op = NoOp
    /\ \E name \in BinaryOps \cup UnaryOps, c \in Classes \cup {"float"}, accept \in BOOLEAN :
         \E r \in {Method(name, [name |-> Self, class |-> klass],
                           [name |-> Other, class |-> c], accept)} :
           /\ op' = [name |-> name, other |-> [class |-> c]]
           /\ calls' = r.calls
           /\ res' = [err |-> r.err, ret |-> Fresh, class |-> r.class]
    /\ UNCHANGED <<shape, read_only, klass, mem, env>>

NextAlg == IAddCall \/ ISubCall \/ MatMulCall \/ DotTransposeCall \/ NumOpCall

AlgSpec == InitAlg /\ [][NextAlg]_vars

(***************************************************************************)
(* _add_ndarrayview_ops(klass).  Here env is the namespace of klass: for   *)
(* every name, "none" when klass has no such attribute, "own" when it      *)
(* brought its own, "mixin" when it carries NDArrayViewOpsMixin's.         *)
(***************************************************************************)
\* the names the loop walks, in its order
InstallNames ==
    <<"__add__", "__sub__", "__mul__", "__radd__", "__rmul__",
      "__iadd__", "__isub__", "__matmul__", "dot", "dot_transpose",
      "sigmoid", "tanh", "relu", "reduce_log_sum",
      "reshape", "drop_axis", "__getitem__", "__setitem__", "splice">>

\* the keys of NDArrayViewOpsMixin.__dict__ : drop_axis is commented out
MixinDict ==
    {"_num_op", "_mat_prod", "__add__", "__sub__", "__mul__", "__radd__",
     "__rmul__", "__iadd__", "__isub__", "__matmul__", "dot", "dot_transpose",
     "sigmoid", "tanh", "relu", "reduce_log_sum", "reshape",
     "__setitem__", "__getitem__", "splice"}

Listed == {InstallNames[i] : i \in 1..Len(InstallNames)}

\* the loop from name i on, over namespace ns
RECURSIVE InstallLoop(_, _)
InstallLoop(ns, i) ==
    IF i > Len(InstallNames) THEN [err |-> "none", ns |-> ns]
    ELSE IF ns[InstallNames[i]] # "none" THEN [err |-> "ValueError", ns |-> ns]
    ELSE IF InstallNames[i] \notin MixinDict THEN [err |-> "KeyError", ns |-> ns]
    ELSE InstallLoop([ns EXCEPT ![InstallNames[i]] = "mixin"], i + 1)

\* the attributes a class may bring along
OwnNames ==
    {"__add__", "dot", "relu", "reshape", "drop_axis", "__getitem__", "splice",
     "__neg__", "asarray"}

\* AVAILABLE_TENSOR_OPS as the names '__%s__' % op_name, in list order
TensorOpNames ==
    <<"__abs__", "__add__", "__div__", "__getitem__", "__matmul__", "__mul__",
      "__radd__", "__rdiv__", "__rmatmul__", "__rmul__", "__rsub__",
      "__rtruediv__", "__sub__", "__truediv__", "__neg__">>

\* the keys of TensorOpsMixin.__dict__
TensorMixinDict ==
    {"__add__", "__radd__", "__sub__", "__rsub__", "__mul__", "__rmul__",
     "__matmul__", "__rmatmul__", "__truediv__", "__rtruediv__", "__div__",
     "__rdiv__", "__abs__", "__neg__", "__getitem__"}

\* the loop of _add_tensor_ops from name i on
RECURSIVE TensorInstallLoop(_, _)
TensorInstallLoop(ns, i) ==
    IF i > Len(TensorOpNames) THEN [err |-> "none", ns |-> ns]
    ELSE IF ns[TensorOpNames[i]] # "none" THEN [err |-> "ValueError", ns |-> ns]
    ELSE IF TensorOpNames[i] \notin TensorMixinDict THEN [err |-> "KeyError", ns |-> ns]
    ELSE TensorInstallLoop([ns EXCEPT ![TensorOpNames[i]] = "mixin"], i + 1)

\* _add_asarray(klass): the one name 'asarray'
AsArrayInstall(ns) ==
    IF ns["asarray"] # "none" THEN [err |-> "ValueError", ns |-> ns]
    ELSE [err |-> "none", ns |-> [ns EXCEPT !["asarray"] = "mixin"]]

AllNames ==
    Listed \cup {TensorOpNames[i] : i \in 1..Len(TensorOpNames)} \cup {"asarray"}

Namespace(own) == [n \in AllNames |-> IF n \in own THEN "own" ELSE "none"]

InitInstall ==
    /\ shape = <<>>
    /\ read_only = FALSE
    /\ klass \in Classes
    /\ env \in {Namespace(own) : own \in SUBSET OwnNames}
    /\ mem = Iota(shape)
    /\ op = NoOp
    /\ calls = <<>>
    /\ res = NoRes

AddNDArrayViewOps ==
    /\ op = NoOp
    /\ op' = [name |-> "_add_ndarrayview_ops", before |-> env]
    /\ env' = InstallLoop(env, 1).ns
    /\ res' = [err |-> InstallLoop(env, 1).err]
    /\ UNCHANGED <<shape, read_only, klass, mem, calls>>

AddTensorOps ==
    /\ op = NoOp
    /\ op' = [name |-> "_add_tensor_ops", before |-> env]
    /\ env' = TensorInstallLoop(env, 1).ns
    /\ res' = [err |-> TensorInstallLoop(env, 1).err]
    /\ UNCHANGED <<shape, read_only, klass, mem, calls>>

AddAsArray ==
    /\ op = NoOp
    /\ op' = [name |-> "_add_asarray", before |-> env]
    /\ env' = AsArrayInstall(env).ns
    /\ res' = [err |-> AsArrayInstall(env).err]
    /\ UNCHANGED <<shape, read_only, klass, mem, calls>>

NextInstall == AddNDArrayViewOps \/ AddTensorOps \/ AddAsArray

InstallSpec == InitInstall /\ [][NextInstall]_vars

(***************************************************************************)
(* TensorOpsMixin.__getitem__(self, arg), the graph-mode indexing, and the *)
(* selectors of other types.  calls holds the ops.slice / ops.splice nodes *)
(* built, each with the key position `at` of the selector it was built     *)
(* for.                                                                    *)
(***************************************************************************)
MaxTypedKeyLen == 2

\* selectors and list items that are no int, slice or Ellipsis
\* (k tells the type; v is kept an integer and items holds a list's elements)
Str == [k |-> "str", v |-> 0, start |-> None, stop |-> None, step |-> None]
Flt == [k |-> "float", v |-> 0, start |-> None, stop |-> None, step |-> None]
Non == [k |-> "none", v |-> 0, start |-> None, stop |-> None, step |-> None]
Lst(items) ==
    [k |-> "list", v |-> 0, start |-> None, stop |-> None, step |-> None,
     items |-> items]

GraphSlice(axis, begin, end, at) ==
    [fn |-> "slice", axis |-> axis, begin_index |-> begin, end_index |-> end,
     at |-> at]

\* for idx in s: ... slice_accum.append(ops.slice(r, axis, idx, idx + 1))
RECURSIVE ListLoop(_, _, _, _)
ListLoop(items, j, axis, st) ==
    IF j > Len(items) THEN st
    ELSE IF items[j].k # "int" THEN [st EXCEPT !.err = "IndexError"]
    ELSE ListLoop(items, j + 1, axis,
                  [st EXCEPT !.calls = Append(@, GraphSlice(axis, items[j].v,
                                                            items[j].v + 1, axis))])

\* the tuple/list branch after its loop has left l
ListAfter(s, axis, l) ==
    IF l.err # "none" THEN l
    ELSE IF Len(s.items) > 1
    THEN [l EXCEPT !.calls = Append(@, [fn |-> "splice", axis |-> axis,
                                         num |-> Len(s.items), at |-> axis])]
    ELSE IF Len(s.items) = 0 THEN [l EXCEPT !.err = "IndexError"]
    ELSE l

ListSelector(s, axis, st) == ListAfter(s, axis, ListLoop(s.items, 1, axis, st))

\* the slice branch: begin = s.start or 0, end = s.stop or 0
GraphSliceSelector(s, axis, st) ==
    IF s.step # None /\ s.step # Some(1) THEN [st EXCEPT !.err = "ValueError"]
    ELSE IF (IF s.start = None THEN 0 ELSE s.start[1]) # 0
            \/ (IF s.stop = None THEN 0 ELSE s.stop[1]) # 0
    THEN [st EXCEPT !.calls =
             Append(@, GraphSlice(axis + st.axis0,
                                  IF s.start = None THEN 0 ELSE s.start[1],
                                  IF s.stop = None THEN 0 ELSE s.stop[1], axis))]
    ELSE st

\* the body of `for axis, s in enumerate(arg)`
GraphSelector(arg, s, axis, st) ==
    IF s.k = "ellipsis" THEN [st EXCEPT !.axis0 = 0 - Len(arg)]
    ELSE IF s.k = "int"
    THEN GraphSliceSelector(Slc(Some(s.v), Some(s.v + 1), None), axis, st)
    ELSE IF s.k = "slice" THEN GraphSliceSelector(s, axis, st)
    ELSE IF s.k = "list" THEN ListSelector(s, axis, st)
    ELSE [st EXCEPT !.err = "IndexError"]

RECURSIVE GraphLoop(_, _, _)
GraphLoop(arg, axis, st) ==
    IF axis >= Len(arg) \/ st.err # "none" THEN st
    ELSE GraphLoop(arg, axis + 1, GraphSelector(arg, arg[axis + 1], axis, st))

GraphGetItem(arg) == GraphLoop(arg, 0, [err |-> "none", calls |-> <<>>, axis0 |-> 0])

\* whether key holds a selector that direct mode stores as a start offset
\* though it is no integer
HasForeign(key) == \E p \in 1..Len(key) : key[p].k \notin {"ellipsis", "slice", "int"}

\* what the runtime may answer to a slice_view whose offsets are no integers
RuntimeRefusals == {"TypeError", "IndexError"}

\* NDArrayViewOpsMixin.__getitem__ on a key of selectors of any type: the
\* loop stores a foreign selector as start offset like an int, and the
\* slice_view call is issued with it; the runtime refuses it with refusal
DirectAfter(shp, ro, key, st, refusal) ==
    IF st.err = "none" /\ HasForeign(key)
    THEN [err |-> refusal, shape |-> <<>>, start_offsets |-> st.start_offsets,
          extents |-> st.extents, calls |-> <<SliceViewCall(ro, st)>>]
    ELSE GetItemView(shp, ro, FALSE, st)

DirectGetItem(shp, ro, key, refusal) ==
    DirectAfter(shp, ro, key, KeyLoop(shp, key, 0, KeyLoopInit(shp)), refusal)

\* Ellipsis, 0, -1, ':', 0:2, 0:2:2, [0, 1], [-1], [0, "a"], [], "a", 1.5, None
TypedSelectors ==
    {Ell, Idx(0), Idx(0 - 1),
     Slc(None, None, None), Slc(Some(0), Some(2), None),
     Slc(Some(0), Some(2), Some(2)),
     Lst(<<Idx(0), Idx(1)>>), Lst(<<Idx(0 - 1)>>), Lst(<<Idx(0), Str>>),
     Lst(<<>>), Str, Flt, Non}

TypedKeys == UNION {[1..n -> TypedSelectors] : n \in 0..MaxTypedKeyLen}

InitGraph ==
    /\ shape \in Shapes
    /\ read_only \in BOOLEAN
    /\ klass \in Classes
    /\ env = Bindings
    /\ mem = Iota(shape)
    /\ op = NoOp
    /\ calls = <<>>
    /\ res = NoRes

\* r = var[arg] on a graph node
GraphGetItemCall ==
    /\ op = NoOp
    /\ \E arg \in TypedKeys :
         /\ op' = [name |-> "graph_getitem", key |-> arg]
         /\ calls' = GraphGetItem(arg).calls
         /\ res' = [err |-> GraphGetItem(arg).err]
    /\ UNCHANGED <<shape, read_only, klass, mem, env>>

\* r = h[key] on a handle
DirectGetItemCall ==
    /\ op = NoOp
    /\ \E key \in TypedKeys, refusal \in RuntimeRefusals :
         /\ op' = [name |-> "direct_getitem", key |-> key]
         /\ calls' = DirectGetItem(shape, read_only, key, refusal).calls
         /\ res' = [err |-> DirectGetItem(shape, read_only, key, refusal).err,
                    shape |-> DirectGetItem(shape, read_only, key, refusal).shape,
                    class |-> klass]
    /\ UNCHANGED <<shape, read_only, klass, mem, env>>

NextGraph == GraphGetItemCall \/ DirectGetItemCall

GraphSpec == InitGraph /\ [][NextGraph]_vars

(***************************************************************************)
(* ArrayMixin.asarray(self) over a sequence of calls.  Here env holds the  *)
(* pipeline cache of _sparse_to_dense_network_cache (the keys it has       *)
(* memoized), the number of pipelines built, the number of calls made and  *)
(* the trailing sizes of the sparse sources converted so far; op is the    *)
(* source of the last call, calls what that call ran, res its outcome.     *)
(***************************************************************************)
MaxCalls == 3

ValueKinds == {"Value", "cntk_py.Value", "MinibatchData"}

SourceKinds ==
    {"Constant", "Parameter", "cntk_py.Constant", "cntk_py.Parameter",
     "NDArrayView", "NDMask", "other"} \cup ValueKinds

\* is_sparse as the isinstance branches bind it
IsSparse(src) == IF src.kind = "NDMask" THEN FALSE ELSE src.is_sparse

\* the warning of `if has_mask:`, reached on a Value or MinibatchData only;
\* MaskWarningAlways warns on every Value or MinibatchData
MaskWarningAlways(src) ==
    IF src.kind \in ValueKinds THEN {"mask ignored"} ELSE {}
MaskWarning(src) ==
    IF src.kind \in ValueKinds /\ src.has_mask THEN {"mask ignored"} ELSE {}

\* the key the pipeline is looked up under: (ndav.shape[-1],);
\* CacheKeyWholeShape is the lookup under the whole shape
CacheKeyWholeShape(shp) == shp
CacheKey(shp) == <<shp[Len(shp)]>>

\* _sparse_to_dense_network_cache(key): memoized, builds on a miss only
sparse_to_dense_network_cache(key, cache) ==
    [cache |-> cache \cup {key}, built |-> IF key \in cache THEN 0 ELSE 1]

\* asarray on src with the cache as it stands
AsArray(src, cache) ==
    IF src.kind = "other"
    THEN [err |-> "UnboundLocalError", kind |-> "none", warnings |-> {},
          calls |-> <<>>, cache |-> cache, built |-> 0]
    ELSE IF IsSparse(src)
    THEN [err |-> "none", kind |-> "csr",
          warnings |-> MaskWarning(src) \cup {"csr slow"},
          calls |-> <<[fn |-> "_sparse_to_dense_network_cache",
                       key |-> CacheKey(src.shape)],
                      [fn |-> "eval"], [fn |-> "csr_matrix"]>>,
          cache |-> sparse_to_dense_network_cache(CacheKey(src.shape), cache).cache,
          built |-> sparse_to_dense_network_cache(CacheKey(src.shape), cache).built]
    ELSE [err |-> "none", kind |-> "dense", warnings |-> MaskWarning(src),
          calls |-> <<[fn |-> "to_ndarray"]>>, cache |-> cache, built |-> 0]

\* the sources tried: shapes of rank 1 and 2
Sources ==
    [kind : SourceKinds, is_sparse : BOOLEAN, has_mask : BOOLEAN,
     shape : {s \in Shapes : Len(s) \in {1, 2}}]

InitAsArray ==
    /\ shape = <<>>
    /\ read_only = FALSE
    /\ klass = "NDArrayView"
    /\ env = [cache |-> {}, built |-> 0, n |-> 0, seen |-> {}]
    /\ mem = Iota(shape)
    /\ op = NoOp
    /\ calls = <<>>
    /\ res = NoRes

AsArrayDone(src, r) ==
    /\ op' = [name |-> "asarray", src |-> src, cache |-> env.cache]
    /\ calls' = r.calls
    /\ res' = [err |-> r.err, kind |-> r.kind, warnings |-> r.warnings]
    /\ env' = [cache |-> r.cache, built |-> env.built + r.built, n |-> env.n + 1,
               seen |-> IF r.kind = "csr"
                        THEN env.seen \cup {src.shape[Len(src.shape)]}
                        ELSE env.seen]

AsArrayCall ==
    /\ env.n < MaxCalls
    /\ \E src \in Sources : AsArrayDone(src, AsArray(src, env.cache))
    /\ UNCHANGED <<shape, read_only, klass, mem>>

NextAsArray == AsArrayCall

AsArraySpec == InitAsArray /\ [][NextAsArray]_vars

(***************************************************************************)
(* seq_hardmax(logits) of the BidirectionalAttentionFlow helpers.  Every   *)
(* operation in it is element-wise, so a sequence is modelled by one       *)
(* element per step; logits are small integers and initial_state stands    *)
(* for the constant -1e+30 the fold starts from, a value inside the range  *)
(* of the logits.                                                          *)
(***************************************************************************)
MaxSeqLen == 4
MaxLogit == 1

initial_state == 0 - 2

Logits == (initial_state - 1)..MaxLogit

LogitSeqs == UNION {[1..n -> Logits] : n \in 1..MaxSeqLen}

element_max(a, b) == IF a >= b THEN a ELSE b

equal(a, b) == IF a = b THEN 1 ELSE 0

\* C.layers.Fold(element_max, initial_state=...)(x): the last state of the
\* recurrence h[t] = element_max(h[t-1], x[t]) over the first n steps
RECURSIVE FoldMax(_, _)
FoldMax(x, n) ==
    IF n = 0 THEN initial_state ELSE element_max(FoldMax(x, n - 1), x[n])

\* C.layers.Recurrence(C.plus)(x) at step n: h[t] = h[t-1] + x[t] from 0
RECURSIVE RecurrencePlus(_, _)
RecurrencePlus(x, n) == IF n = 0 THEN 0 ELSE RecurrencePlus(x, n - 1) + x[n]

\* s = C.equal(logits, C.sequence.broadcast_as(seq_max, logits))
HardmaxS(logits) == [t \in 1..Len(logits) |-> equal(logits[t], FoldMax(logits, Len(logits)))]

\* s * C.equal(s_acc, 1) over the marks s
FirstOnly(s) == [t \in 1..Len(s) |-> s[t] * equal(RecurrencePlus(s, t), 1)]

seq_hardmax(logits) == FirstOnly(HardmaxS(logits))

InitHardmax ==
    /\ shape = <<>>
    /\ read_only = FALSE
    /\ klass = "NDArrayView"
    /\ env = Bindings
    /\ mem = Iota(shape)
    /\ op = NoOp
    /\ calls = <<>>
    /\ res = NoRes

SeqHardmaxCall ==
    /\ op = NoOp
    /\ \E logits \in LogitSeqs :
         /\ op' = [name |-> "seq_hardmax", logits |-> logits]
         /\ res' = [err |-> "none", out |-> seq_hardmax(logits)]
    /\ UNCHANGED <<shape, read_only, klass, mem, env, calls>>

NextHardmax == SeqHardmaxCall

HardmaxSpec == InitHardmax /\ [][NextHardmax]_vars

(***************************************************************************)
(* down_shift(x) and right_shift(x) of the PixelCNN helpers, on a graph    *)
(* node x of shape (C, H, W).  A node is a record [shape, data].           *)
(***************************************************************************)
MaxShiftDim == 4

\* ops.slice(x, axis, begin_index, end_index) of the framework: a negative
\* index counts from the end of the axis, and an end_index of 0 is the end
SliceBegin(n, begin) == IF begin < 0 THEN begin + n ELSE begin
SliceEnd(n, end) == IF end <= 0 THEN end + n ELSE end

ops_slice(x, axis, begin, end) ==
    [shape |-> [x.shape EXCEPT ![axis + 1] =
                   SliceEnd(x.shape[axis + 1], end) - SliceBegin(x.shape[axis + 1], begin)],
     data  |-> [c \in Coords([x.shape EXCEPT ![axis + 1] =
                   SliceEnd(x.shape[axis + 1], end) - SliceBegin(x.shape[axis + 1], begin)]) |->
                   x.data[[c EXCEPT ![axis + 1] = @ + SliceBegin(x.shape[axis + 1], begin)]]]]

\* the node x[arg]: the ops.slice nodes __getitem__ built, applied in order
RECURSIVE GraphView(_, _, _)
GraphView(x, cs, i) ==
    IF i > Len(cs) THEN x
    ELSE GraphView(ops_slice(x, cs[i].axis, cs[i].begin_index, cs[i].end_index),
                   cs, i + 1)

\* ops.splice(a, b, axis) of the framework: b after a along axis
ops_splice(a, b, axis) ==
    [shape |-> [a.shape EXCEPT ![axis + 1] = @ + b.shape[axis + 1]],
     data  |-> [c \in Coords([a.shape EXCEPT ![axis + 1] = @ + b.shape[axis + 1]]) |->
                   IF c[axis + 1] < a.shape[axis + 1] THEN a.data[c]
                   ELSE b.data[[c EXCEPT ![axis + 1] = @ - a.shape[axis + 1]]]]]

\* ct.constant(value=0., shape=shp)
Zeros(shp) == [shape |-> shp, data |-> [c \in Coords(shp) |-> 0]]

\* the keys x[:, :xs[1]-1, :] and x[:, :, :xs[2]-1]
DownKey(xs) ==
    <<Slc(None, None, None), Slc(None, Some(xs[2] - 1), None), Slc(None, None, None)>>
RightKey(xs) ==
    <<Slc(None, None, None), Slc(None, None, None), Slc(None, Some(xs[3] - 1), None)>>

down_shift(x) ==
    ops_splice(Zeros(<<x.shape[1], 1, x.shape[3]>>),
               GraphView(x, GraphGetItem(DownKey(x.shape)).calls, 1), 1)

right_shift(x) ==
    ops_splice(Zeros(<<x.shape[1], x.shape[2], 1>>),
               GraphView(x, GraphGetItem(RightKey(x.shape)).calls, 1), 2)

\* the images tried: every (C, H, W) up to MaxShiftDim, elements distinct
\* and positive
Images == {[shape |-> xs, data |-> Iota(xs)] : xs \in [1..3 -> 1..MaxShiftDim]}

InitShift ==
    /\ shape = <<>>
    /\ read_only = FALSE
    /\ klass = "Variable"
    /\ env = Bindings
    /\ mem = Iota(shape)
    /\ op = NoOp
    /\ calls = <<>>
    /\ res = NoRes

DownShiftCall ==
    /\ op = NoOp
    /\ \E x \in Images :
         /\ op' = [name |-> "down_shift", x |-> x]
         /\ calls' = GraphGetItem(DownKey(x.shape)).calls
         /\ res' = [err |-> "none", shape |-> down_shift(x).shape,
                    data |-> down_shift(x).data]
    /\ UNCHANGED <<shape, read_only, klass, mem, env>>

RightShiftCall ==
    /\ op = NoOp
    /\ \E x \in Images :
         /\ op' = [name |-> "right_shift", x |-> x]
         /\ calls' = GraphGetItem(RightKey(x.shape)).calls
         /\ res' = [err |-> "none", shape |-> right_shift(x).shape,
                    data |-> right_shift(x).data]
    /\ UNCHANGED <<shape, read_only, klass, mem, env>>

NextShift == DownShiftCall \/ RightShiftCall

ShiftSpec == InitShift /\ [][NextShift]_vars

(***************************************************************************)
(* The per-epoch minibatch loops of the training scripts: train_and_       *)
(* evaluate of CifarConvNet.py (training epochs, then one evaluation       *)
(* pass) and train of PixelCNN/train.py.  Here env holds the script's      *)
(* variables and its position pc; op is the last step taken.  A reader     *)
(* answers a request for n samples with 1..n samples.                      *)
(***************************************************************************)
MaxEpochSize == 4
MaxMinibatchSize == 3
MaxEpochs == 2

\* the script's variables when the first epoch starts; e_size and e_mb are
\* the epoch_size and minibatch_size the evaluation pass assigns
Script(script, epoch_size, minibatch_size, max_epochs, e_size, e_mb) ==
    [script |-> script, pc |-> "train", epoch |-> 0, max_epochs |-> max_epochs,
     epoch_size |-> epoch_size, minibatch_size |-> minibatch_size,
     eval_epoch_size |-> e_size, eval_minibatch_size |-> e_mb,
     sample_count |-> 0, metric_denom |-> 0]

InitTrain ==
    /\ shape = <<>>
    /\ read_only = FALSE
    /\ klass = "NDArrayView"
    /\ env \in {Script(sc, es, mb, me, ees, emb) :
                   sc \in {"CifarConvNet", "PixelCNN"}, es \in 1..MaxEpochSize, mb \in 1..MaxMinibatchSize,
                   me \in 1..MaxEpochs, ees \in 1..MaxEpochSize,
                   emb \in 1..MaxMinibatchSize}
    /\ mem = Iota(shape)
    /\ op = NoOp
    /\ calls = <<>>
    /\ res = NoRes

\* min(minibatch_size, epoch_size - sample_count)
Request(e) ==
    IF e.minibatch_size <= e.epoch_size - e.sample_count THEN e.minibatch_size
    ELSE e.epoch_size - e.sample_count

\* one pass of the body of `while sample_count < epoch_size` in training:
\* fetch, train, sample_count += the number of samples got
TrainMinibatch ==
    /\ env.pc = "train"
    /\ env.sample_count < env.epoch_size
    /\ \E got \in 1..Request(env) :
         /\ op' = [name |-> "next_minibatch", request |-> Request(env), got |-> got,
                   minibatch_size |-> env.minibatch_size]
         /\ env' = [env EXCEPT !.sample_count = @ + got]
    /\ UNCHANGED <<shape, read_only, klass, mem, calls, res>>

\* the while loop of an epoch is left: the next epoch starts with
\* sample_count = 0, or the epochs are over; in CifarConvNet the evaluation
\* pass then starts: epoch_size and minibatch_size reassigned,
\* metric_denom = 0, sample_count = 0
EpochEnd ==
    /\ env.pc = "train"
    /\ ~(env.sample_count < env.epoch_size)
    /\ op' = [name |-> "epoch_end", sample_count |-> env.sample_count,
              epoch_size |-> env.epoch_size, metric_denom |-> env.metric_denom]
    /\ env' = IF env.epoch + 1 < env.max_epochs
              THEN [env EXCEPT !.epoch = @ + 1, !.sample_count = 0]
              ELSE IF env.script = "CifarConvNet"
              THEN [env EXCEPT !.epoch = @ + 1, !.pc = "eval",
                               !.epoch_size = env.eval_epoch_size,
                               !.minibatch_size = env.eval_minibatch_size,
                               !.sample_count = 0, !.metric_denom = 0]
              ELSE [env EXCEPT !.epoch = @ + 1, !.pc = "done"]
    /\ UNCHANGED <<shape, read_only, klass, mem, calls, res>>

\* one pass of the body of the evaluation loop: metric_denom grows by
\* current_minibatch, sample_count by the number of samples got
EvalMinibatch ==
    /\ env.pc = "eval"
    /\ env.sample_count < env.epoch_size
    /\ \E got \in 1..Request(env) :
         /\ op' = [name |-> "next_minibatch", request |-> Request(env), got |-> got,
                   minibatch_size |-> env.minibatch_size]
         /\ env' = [env EXCEPT !.metric_denom = @ + Request(env),
                               !.sample_count = @ + got]
    /\ UNCHANGED <<shape, read_only, klass, mem, calls, res>>

\* the evaluation loop is left
EvalEnd ==
    /\ env.pc = "eval"
    /\ ~(env.sample_count < env.epoch_size)
    /\ op' = [name |-> "eval_end", sample_count |-> env.sample_count,
              epoch_size |-> env.epoch_size, metric_denom |-> env.metric_denom]
    /\ env' = [env EXCEPT !.pc = "done"]
    /\ UNCHANGED <<shape, read_only, klass, mem, calls, res>>

NextTrain == TrainMinibatch \/ EpochEnd \/ EvalMinibatch \/ EvalEnd

TrainSpec == InitTrain /\ [][NextTrain]_vars

(***************************************************************************)
(* Claims about indexing and indexed assignment.                           *)
(***************************************************************************)
\* a key of in-range integers and step-free slices with non-negative
\* bounds, no longer than the rank
PlainSelector(dim, s) ==
    \/ s.k = "int" /\ 0 <= s.v /\ s.v < dim
    \/ /\ s.k = "slice" /\ s.step = None
       /\ LET b == IF s.start = None THEN 0 ELSE s.start[1]
              e == IF s.stop = None THEN dim ELSE s.stop[1]
          IN  0 <= b /\ b <= e /\ e <= dim

PlainKey(shp, key) ==
    /\ Len(key) <= Len(shp)
    /\ \A p \in 1..Len(key) : PlainSelector(shp[p], key[p])

\* the result shape the indexing rule states: slices keep their axis with
\* extent stop - start, integers drop it, unindexed axes are kept
RECURSIVE StatedShape(_, _, _)
StatedShape(shp, key, a) ==
    IF a > Len(shp) THEN <<>>
    ELSE (IF a > Len(key) THEN <<shp[a]>>
          ELSE IF key[a].k = "int" THEN <<>>
          ELSE <<(IF key[a].stop = None THEN shp[a] ELSE key[a].stop[1])
                 - (IF key[a].start = None THEN 0 ELSE key[a].start[1])>>)
         \o StatedShape(shp, key, a + 1)

\* C1: h[key] with keep_singles=False, for a key of in-range integers and
\* step-free slices, succeeds with the shape that keeps every sliced axis at
\* extent stop - start (':' in full), drops every integer-indexed axis and
\* keeps the unindexed axes.
C1_GetItemShape ==
    (op.name = "getitem" /\ ~op.keep_singles /\ PlainKey(shape, op.key))
        => (res.err = "none" /\ res.shape = StatedShape(shape, op.key, 1))

\* C2: every slice_view call issued by __getitem__ / __setitem__ satisfies
\* the View invariant on every axis of the parent.
C2_ViewInvariant ==
    \A j \in 1..Len(calls) :
        calls[j].fn = "slice_view" =>
            \A a \in 1..Len(shape) :
                /\ 0 <= calls[j].start_offsets[a]
                /\ calls[j].start_offsets[a] + calls[j].extents[a] <= shape[a]

\* the axis (1-based) that the selector at key position p addresses when
\* selectors after an Ellipsis count from the end of the shape
EllipsisAt(key) == CHOOSE p \in 1..Len(key) : key[p].k = "ellipsis"
StatedAxis(shp, key, p) ==
    IF p < EllipsisAt(key) THEN p ELSE Len(shp) - (Len(key) - p)

\* C3: with one Ellipsis in the key and in-range integers around it, the
\* selectors after the Ellipsis address the last axes of the shape: a
\* slice_view is issued whose offset on each addressed axis is the integer
\* given for it, with extent 1.
C3_EllipsisFromEnd ==
    (/\ op.name = "getitem"
     /\ Cardinality({p \in 1..Len(op.key) : op.key[p].k = "ellipsis"}) = 1
     /\ Len(op.key) - 1 <= Len(shape)
     /\ \A p \in 1..Len(op.key) :
           \/ op.key[p].k = "ellipsis"
           \/ /\ op.key[p].k = "int" /\ 0 <= op.key[p].v
              /\ op.key[p].v < shape[StatedAxis(shape, op.key, p)])
        => /\ calls # <<>>
           /\ calls[1].fn = "slice_view"
           /\ \A p \in 1..Len(op.key) :
                 op.key[p].k = "int" =>
                     /\ calls[1].start_offsets[StatedAxis(shape, op.key, p)] = op.key[p].v
                     /\ calls[1].extents[StatedAxis(shape, op.key, p)] = 1

SteppedSlice(key) ==
    \E p \in 1..Len(key) :
        key[p].k = "slice" /\ key[p].step # None /\ key[p].step # Some(1)

\* C4: a key (no longer than the rank) is rejected with the slicing
\* ValueError exactly when one of its slices has a step other than 1, no
\* slice_view is issued on rejection, and slices with step absent or 1 are
\* never rejected for their step.
C4_StepRejected ==
    (op.name = "getitem" /\ Len(op.key) <= Len(shape))
        => /\ (res.err = "ValueError") <=> SteppedSlice(op.key)
           /\ SteppedSlice(op.key) => calls = <<>>
           /\ ~SteppedSlice(op.key) => res.err \notin {"ValueError", "TypeError"}

InRegion(c, start_offsets, extents) ==
    \A a \in 1..Len(c) :
        start_offsets[a] <= c[a] /\ c[a] < start_offsets[a] + extents[a]

\* C8: h[key] = value takes the view with keep_singles=True, so the view has
\* the rank of h and no as_shape is issued; after the write the region of
\* h's storage addressed by key holds value's elements and every element
\* outside it is as before.
C8_SetItemRegion ==
    (op.name = "setitem" /\ res.err = "none")
        => /\ Len(calls) = 2
           /\ calls[1].fn = "slice_view"
           /\ calls[2].fn = "numeric_operation_in_place"
           /\ Len(res.shape) = Len(shape)
           /\ res.shape = calls[1].extents
           /\ PlainKey(shape, op.key) =>
                 \A a \in 1..Len(op.key) :
                     IF op.key[a].k = "int"
                     THEN calls[1].start_offsets[a] = op.key[a].v
                          /\ calls[1].extents[a] = 1
                     ELSE LET b == IF op.key[a].start = None THEN 0
                                   ELSE op.key[a].start[1]
                              e == IF op.key[a].stop = None THEN shape[a]
                                   ELSE op.key[a].stop[1]
                          IN  calls[1].start_offsets[a] = b
                              /\ calls[1].extents[a] = e - b
           /\ op.value.shape = res.shape =>
               \A c \in Coords(shape) :
                 IF InRegion(c, calls[1].start_offsets, calls[1].extents)
                 THEN mem[c] = op.value.data[[a \in 1..Len(c) |->
                                                c[a] - calls[1].start_offsets[a]]]
                 ELSE mem[c] = Iota(shape)[c]

\* an assignment through an integer index into a proper part of the storage
C8_Witness ==
    /\ op.name = "setitem" /\ res.err = "none" /\ op.value.shape = res.shape
    /\ \E p \in 1..Len(op.key) : op.key[p].k = "int"
    /\ Prod(res.shape) > 1
    /\ Prod(res.shape) < Prod(shape)

(***************************************************************************)
(* Claims about splice.                                                    *)
(***************************************************************************)
IsWrite(x) == x.fn = "numeric_operation_in_place"
Writes == SelectSeq(calls, IsWrite)

\* splice over inputs that all have the shape of the first, along one of
\* its axes
UniformSplice ==
    /\ op.name = "splice"
    /\ Len(op.args) >= 1
    /\ \A i \in 1..Len(op.args) : op.args[i] = op.args[1]
    /\ op.axis < Len(op.args[1])

\* C5: splice(args, axis) with axis >= 0 over inputs of common shape S
\* returns, writes input i into [i*S[axis], (i+1)*S[axis]) along axis and
\* the full range of every other axis, and the writes cover the output.
C5_SpliceConcat ==
    (UniformSplice /\ op.axis >= 0)
        => /\ \A j \in 1..Len(Writes) :
                 \A a \in 1..Len(op.args[1]) :
                    IF a = op.axis + 1
                    THEN /\ Writes[j].start_offsets[a] = (j - 1) * op.args[1][a]
                         /\ Writes[j].extents[a] = op.args[1][a]
                    ELSE /\ Writes[j].start_offsets[a] = 0
                         /\ Writes[j].extents[a] = op.args[1][a]
           /\ res.err = "none"
           /\ Len(Writes) = Len(op.args)
           /\ \A c \in Coords(shape) : mem[c] = 1

\* C6: the handle splice returns for inputs of common shape S has, for
\* axis >= 0, the shape S with the size on axis multiplied by the number of
\* inputs, and for axis < 0 the shape (n,) + (1,)*(-axis-1) + S.
C6_SpliceShape ==
    (UniformSplice /\ res.err = "none")
        => res.shape =
             IF op.axis >= 0
             THEN [a \in 1..Len(op.args[1]) |->
                      IF a = op.axis + 1 THEN op.args[1][a] * Len(op.args)
                      ELSE op.args[1][a]]
             ELSE <<Len(op.args)>> \o Repeat(1, (0 - op.axis) - 1) \o op.args[1]

\* two inputs spliced along an axis of size above 1
C6_Witness ==
    /\ UniformSplice /\ res.err = "none"
    /\ op.axis >= 0
    /\ Len(op.args) = 2
    /\ op.args[1][op.axis + 1] > 1

\* C7: splice over inputs that do not all share one shape fails with
\* ShapeMismatch (the axis being one splice accepts for the first input).
C7_SpliceRejectsMixed ==
    (/\ op.name = "splice"
     /\ Len(op.args) >= 1
     /\ op.axis < Len(op.args[1])
     /\ \E i \in 1..Len(op.args) : op.args[i] # op.args[1])
        => res.err = "ShapeMismatch"

(***************************************************************************)
(* Claims about the in-place operators and the matrix product.             *)
(***************************************************************************)
\* the contents seen through the handle that name n is bound to
Observe(n) == IF env[n] = Self THEN mem ELSE [c \in Coords(shape) |-> 0]

\* C9: a += c and a -= c issue one in-place accumulate of c into the
\* receiver (scaled by 1, resp. -1, onto the kept contents) and return the
\* receiver itself, so a stays the handle b names and b shows the update.
C9_InPlaceSameHandle ==
    (op.name \in {"iadd", "isub"} /\ res.err = "none")
        => /\ res.ret = Self
           /\ env.a = env.b
           /\ Len(calls) = 1
           /\ calls[1].fn = "numeric_operation_in_place"
           /\ calls[1].beta = 1
           /\ calls[1].alpha = (IF op.name = "iadd" THEN 1 ELSE 0 - 1)
           /\ calls[1].extents = shape
           /\ op.other.shape = shape =>
                 \A c \in Coords(shape) :
                     Observe("b")[c] =
                         Iota(shape)[c] + calls[1].alpha * op.other.data[c]

\* a -= c on a handle of several elements went through
C9_Witness ==
    /\ op.name = "isub" /\ res.err = "none"
    /\ op.other.shape = shape
    /\ Prod(shape) > 1
    /\ Observe("b") # Iota(shape)

\* C10: for a non-scalar receiver, a.dot(b) issues exactly one
\* matrix_product call, with b as the first matrix operand and a as the
\* second, neither transposed.
C10_DotSwapsOperands ==
    (op.name = "matmul" /\ Len(shape) > 0)
        => /\ Len(calls) = 1
           /\ calls[1].fn = "matrix_product"
           /\ calls[1].arg2 = Other
           /\ calls[1].arg4 = Self
           /\ calls[1].arg3 = FALSE
           /\ calls[1].arg5 = FALSE

\* a product of two non-scalar handles that the runtime carried out
C10_Witness ==
    /\ op.name = "matmul" /\ res.err = "none"
    /\ Len(shape) > 0
    /\ Len(op.other.shape) > 0

C12_ScalarReceiver ==
    (op.name = "matmul" /\ Len(shape) = 0)
        => /\ Len(calls) = 3
           /\ calls[1].fn = "NDArrayView"
           /\ calls[1].shape = op.other.shape
           /\ calls[2].fn = "numeric_operation_in_place"
           /\ calls[2].extents = calls[1].shape
           /\ calls[2].beta = 0
           /\ calls[2].value = <<>>
           /\ calls[3].fn = "matrix_product"
           /\ calls[3].arg2 = Other
           /\ calls[3].arg4 = Fresh
           /\ mem = Iota(shape)

\* the operations the layer exposes in direct mode
Exposed ==
    {"__add__", "__sub__", "__mul__", "__radd__", "__rmul__", "__iadd__",
     "__isub__", "__matmul__", "__getitem__", "__setitem__", "reshape",
     "splice", "dot", "dot_transpose", "sigmoid", "tanh", "relu",
     "reduce_log_sum"}

\* C13: _add_ndarrayview_ops on a class that defines none of the listed
\* names completes without error and leaves the class carrying every
\* exposed direct-mode operation.
C13_InstallCompletes ==
    (op.name = "_add_ndarrayview_ops" /\ \A n \in Listed : op.before[n] = "none")
        => /\ res.err = "none"
           /\ \A n \in Exposed : env[n] = "mixin"

(***************************************************************************)
(* Claims about selectors of other types and graph-mode indexing.          *)
(***************************************************************************)
\* a selector that is no int, slice, Ellipsis or tuple/list of ints
BadSelector(sel) ==
    \/ sel.k \in {"str", "float", "none"}
    \/ sel.k = "list" /\ \E j \in 1..Len(sel.items) : sel.items[j].k # "int"

\* a selector every __getitem__ takes: the index 0 or a slice without step
FineSelector(sel) ==
    \/ sel.k = "int" /\ sel.v = 0
    \/ sel.k = "slice" /\ sel.step = None

OthersFine(key, p) == \A q \in (1..Len(key)) \ {p} : FineSelector(key[q])

\* C14: graph-mode and direct-mode __getitem__ raise IndexError when a
\* selector is no int, slice, Ellipsis or tuple/list of ints, and issue no
\* slice for that selector.
C14_BadSelectorRejected ==
    op.name \in {"graph_getitem", "direct_getitem"}
        => \A p \in 1..Len(op.key) :
              (BadSelector(op.key[p]) /\ OthersFine(op.key, p))
                 => /\ res.err = "IndexError"
                    /\ IF op.name = "direct_getitem" THEN calls = <<>>
                       ELSE \A i \in 1..Len(calls) : calls[i].at # p - 1

\* a tuple/list of ints, one of them negative
NegativeList(sel) ==
    /\ sel.k = "list"
    /\ \A j \in 1..Len(sel.items) : sel.items[j].k = "int"
    /\ \E j \in 1..Len(sel.items) : sel.items[j].v < 0

\* C15: in graph mode a tuple/list selector holding a negative integer is
\* rejected with an error and yields no slice, while a plain negative
\* integer index is passed through as it is.
C15_NegativeInList ==
    op.name = "graph_getitem"
        => \A p \in 1..Len(op.key) :
              /\ (NegativeList(op.key[p]) /\ OthersFine(op.key, p))
                    => /\ res.err # "none"
                       /\ \A i \in 1..Len(calls) : calls[i].at # p - 1
              /\ (op.key[p].k = "int" /\ op.key[p].v < 0 /\ OthersFine(op.key, p))
                    => /\ res.err = "none"
                       /\ \E i \in 1..Len(calls) :
                             /\ calls[i].at = p - 1
                             /\ calls[i].axis = p - 1
                             /\ calls[i].begin_index = op.key[p].v
                             /\ calls[i].end_index = op.key[p].v + 1

(***************************************************************************)
(* Claims about negative slice bounds in direct mode.                      *)
(***************************************************************************)
\* a slice bound x on an axis of size n, after `if x < 0: x += n`
Normalized(x, n) == IF x < 0 THEN x + n ELSE x

\* a slice without step that has a negative start or stop
NegativeSlice(sel) ==
    /\ sel.k = "slice" /\ sel.step = None
    /\ \/ sel.start # None /\ sel.start[1] < 0
       \/ sel.stop # None /\ sel.stop[1] < 0

\* C16: in direct-mode __getitem__ a negative slice start or stop on an axis
\* of size n is normalized by adding n, and slice_view receives the
\* normalized start as offset and normalized stop - normalized start as
\* extent; on shape (10,), slice(-3, -1) gives offset 7 and extent 2.
C16_NegativeSliceNormalized ==
    /\ (op.name = "getitem" /\ calls # <<>>)
          => \A p \in 1..Len(op.key) :
                NegativeSlice(op.key[p])
                   => /\ calls[1].fn = "slice_view"
                      /\ calls[1].start_offsets[p] =
                            Normalized(IF op.key[p].start = None THEN 0
                                       ELSE op.key[p].start[1], shape[p])
                      /\ calls[1].extents[p] =
                            Normalized(IF op.key[p].stop = None THEN shape[p]
                                       ELSE op.key[p].stop[1], shape[p])
                            - Normalized(IF op.key[p].start = None THEN 0
                                         ELSE op.key[p].start[1], shape[p])
    /\ GetItem(<<10>>, FALSE, <<Slc(Some(0 - 3), Some(0 - 1), None)>>, TRUE).calls
          = <<[fn |-> "slice_view", start_offsets |-> <<7>>, extents |-> <<2>>,
               read_only |-> FALSE]>>

\* h[-2:-1] on an axis of several elements gave a view
C16_Witness ==
    /\ op.name = "getitem" /\ res.err = "none"
    /\ \E p \in 1..Len(op.key) :
          /\ NegativeSlice(op.key[p])
          /\ shape[p] > 1
          /\ calls[1].start_offsets[p] = shape[p] - 2
          /\ calls[1].extents[p] = 1

(***************************************************************************)
(* Claims about asarray.                                                   *)
(***************************************************************************)
\* C17: asarray() on a Value or MinibatchData that carries a mask warns
\* that the mask is ignored and still returns a converted value, dense or
\* CSR when sparse; the warning is given only when a mask is present.
C17_MaskWarning ==
    op.name = "asarray"
        => /\ (op.src.kind \in ValueKinds /\ op.src.has_mask)
                 => /\ "mask ignored" \in res.warnings
                    /\ res.err = "none"
                    /\ res.kind = (IF op.src.is_sparse THEN "csr" ELSE "dense")
           /\ "mask ignored" \in res.warnings
                 => (op.src.kind \in ValueKinds /\ op.src.has_mask)

\* both conversions of a masked source have been seen, and an unmasked one
C17_Witness ==
    /\ op.name = "asarray"
    /\ op.src.kind = "MinibatchData" /\ op.src.has_mask /\ op.src.is_sparse
    /\ res.kind = "csr"
    /\ res.warnings = {"mask ignored", "csr slow"}

\* C18: over any sequence of asarray() calls a sparse source is converted
\* through the pipeline looked up under its trailing size alone, so the
\* pipelines built number the distinct trailing sizes seen; a dense source
\* is copied by to_ndarray and leaves the cache alone.
C18_PipelinePerTrailingSize ==
    /\ env.built = Cardinality(env.seen)
    /\ env.cache = {<<d>> : d \in env.seen}
    /\ op.name = "asarray"
          => /\ res.kind = "csr"
                   => /\ calls[1].fn = "_sparse_to_dense_network_cache"
                      /\ calls[1].key = <<op.src.shape[Len(op.src.shape)]>>
             /\ res.kind = "dense"
                   => /\ calls = <<[fn |-> "to_ndarray"]>>
                      /\ env.cache = op.cache

\* a second sparse source of another shape but the same trailing size was
\* converted after a first one, with one pipeline built in all
C18_Witness ==
    /\ env.n = MaxCalls
    /\ env.built = 1
    /\ op.name = "asarray" /\ res.kind = "csr"
    /\ Len(op.src.shape) = 2
    /\ op.src.shape[1] # op.src.shape[2]
    /\ CacheKey(op.src.shape) \in op.cache

(***************************************************************************)
(* Claims about the class of results.                                      *)
(***************************************************************************)
\* C19: the handle a direct-mode operation returns through _num_op or
\* _mat_prod has the class of the receiver, whatever the other operand is.
C19_ResultClass ==
    (op.name \in BinaryOps \cup UnaryOps \cup {"matmul", "dot_transpose"}
     /\ res.err = "none")
        => res.class = klass

(***************************************************************************)
(* Claims about seq_hardmax.                                               *)
(***************************************************************************)
\* the largest logit of a sequence, and the first step that holds it
SeqMax(x) == CHOOSE m \in {x[t] : t \in 1..Len(x)} : \A t \in 1..Len(x) : x[t] <= m

FirstMax(x) == CHOOSE t \in 1..Len(x) :
                   /\ x[t] = SeqMax(x)
                   /\ \A u \in 1..(t - 1) : x[u] # SeqMax(x)

\* C20: for any sequence of logits seq_hardmax gives 1 at exactly one step,
\* the first step whose logit equals the sequence maximum, and 0 at every
\* other step, later ties with the maximum included.
C20_FirstMaxOnly ==
    op.name = "seq_hardmax"
        => \A t \in 1..Len(op.logits) :
              res.out[t] = (IF t = FirstMax(op.logits) THEN 1 ELSE 0)

(***************************************************************************)
(* Claims about down_shift and right_shift.                                *)
(***************************************************************************)
\* the axis (as a position of the index tuple) each shift moves along
ShiftAxis(name) == IF name = "down_shift" THEN 2 ELSE 3

\* C21: down_shift(x) and right_shift(x) have the shape (C, H, W) of x:
\* one zero row (resp. column) followed by the first H-1 rows (resp. W-1
\* columns) of x, for every H >= 1 and W >= 1.
C21_ShiftKeepsShape ==
    op.name \in {"down_shift", "right_shift"}
        => /\ res.shape = op.x.shape
           /\ \A c \in Coords(op.x.shape) :
                 res.data[c] =
                    IF c[ShiftAxis(op.name)] = 0 THEN 0
                    ELSE op.x.data[[c EXCEPT ![ShiftAxis(op.name)] = @ - 1]]

(***************************************************************************)
(* Claims about a failed installation.                                     *)
(***************************************************************************)
Installers == {"_add_tensor_ops", "_add_asarray", "_add_ndarrayview_ops"}

\* C22: when _add_tensor_ops, _add_asarray or _add_ndarrayview_ops fails,
\* the class is left as it was: no name of the list has been attached.
C22_InstallAllOrNothing ==
    (op.name \in Installers /\ res.err # "none") => env = op.before

(***************************************************************************)
(* Claims about the minibatch loops.                                       *)
(***************************************************************************)
\* C23: with a reader that returns between 1 and the requested number of
\* samples, sample_count never exceeds epoch_size, every request is between
\* 1 and minibatch_size, every epoch loop is left with sample_count equal
\* to epoch_size, and the evaluation loop is left with metric_denom equal
\* to sample_count.
C23_EpochLoops ==
    /\ env.sample_count <= env.epoch_size
    /\ op.name = "next_minibatch"
          => (1 <= op.request /\ op.request <= op.minibatch_size)
    /\ op.name \in {"epoch_end", "eval_end"} => op.sample_count = op.epoch_size
    /\ op.name = "eval_end" => op.metric_denom = op.sample_count

====
